---- MODULE Spec2Model ----
(***************************************************************************)
(* kaledh4/calc: scripts/fetch_news.py and scripts/generate_insights.py.   *)
(*                                                                         *)
(* Two synchronous scripts, each a fallback chain followed by a JSON       *)
(* artifact write.  The state is the three files under data/ and the       *)
(* record of the most recent invocation (its environment lookup, the       *)
(* sources it attempted in order, its locals and how it ended).  An        *)
(* invocation runs from its first line to its return or its exception,     *)
(* one action per source attempted and one for the artifact write;         *)
(* invocations do not overlap.  What the environment, the network and the  *)
(* file system answer is drawn from bounded sets.                          *)
(*                                                                         *)
(* Python values are tagged records.  A string is Str(i): Str(0) is the    *)
(* empty string, every other i a distinct non-empty string.  A rate is     *)
(* Num(m), m in thousandths of a percent (2.5% is Num(2500)).              *)
(***************************************************************************)
EXTENDS Integers, Sequences, FiniteSets, TLC

VARIABLES
    newsFile,        \* data/news.json
    inflationFile,   \* data/inflation.json (collaborator artifact, read only)
    insightsFile,    \* data/insights.json
    pc,              \* where the running invocation stands; "idle" between invocations
    script,          \* the most recent invocation: "none", "fetch_news", "generate_insights"
    status,          \* how it stands: "idle", "running", "returned", "raised"
    at,              \* where an exception left it ("" otherwise)
    api_key,         \* its api_key local
    calls,           \* the sources it attempted so far, in order, each with what it returned
    news,            \* fetch_news: the news local, and the value returned
    inflation,       \* generate_insights: the inflation local
    news_headlines,  \* generate_insights: the news_headlines local
    model_i,         \* generate_insights: the place in models the loop stands at
    insights_text,   \* generate_insights: the insights_text local
    insights         \* generate_insights: the record returned

vars == <<newsFile, inflationFile, insightsFile, pc, script, status, at, api_key, calls,
          news, inflation, news_headlines, model_i, insights_text, insights>>

----------------------------------------------------------------------------
(* Bounds of the model *)

\* the most articles an upstream GNews answer carries
MaxUpstream == 11
\* the most entries of a news.json found on disk before the first invocation
MaxFileNews == 4

(* Program constants *)

\* articles[:10]
NewsCap == 10
\* news[:3]
HeadlineCap == 3
\* loss = 10000 * (current / 100)
Principal == 10000
\* the default reading {'current': 2.5, ...}, in thousandths of a percent
DefaultCurrent == 2500
\* the default reading {..., 'change': 0.0}
DefaultChange == 0

----------------------------------------------------------------------------
(* Python and JSON values *)

Str(i) == [k |-> "str", v |-> i]
Num(m) == [k |-> "num", v |-> m]
\* a timestamp, in hours relative to datetime.utcnow()
Time(h) == [k |-> "time", v |-> h]
\* JSON null
Null == [k |-> "null", v |-> 0]
\* a key a dict does not carry
Missing == [k |-> "missing", v |-> 0]

EmptyStr == Str(0)

\* dict.get(key, default)
Get(field, default) == IF field.k = "missing" THEN default ELSE field

PyNone == [t |-> "none", items |-> <<>>]
PyList(s) == [t |-> "list", items |-> s]

\* Python truthiness of None and of a list: `if news`, `if not news`
Truthy(v) == v.t = "list" /\ Len(v.items) > 0

\* s[:n]
Take(s, n) == SubSeq(s, 1, IF Len(s) < n THEN Len(s) ELSE n)

\* os.getenv(name, ''): the variable may be unset, set to '' or set to a key
Unset == [set |-> FALSE, val |-> ""]
EnvValues == {Unset, [set |-> TRUE, val |-> ""], [set |-> TRUE, val |-> "key"]}
getenv(e) == IF e.set THEN e.val ELSE ""

----------------------------------------------------------------------------
(* Files *)

\* kind: "absent", "garbage" (not valid JSON), "partial" (a write that stopped
\* part way: a strict prefix of a serialisation, not valid JSON), "json".
Absent == [kind |-> "absent", root |-> "none", items |-> <<>>]
Garbage == [kind |-> "garbage", root |-> "none", items |-> <<>>]
Partial == [kind |-> "partial", root |-> "none", items |-> <<>>]
\* a JSON document: root is "list", "object", "scalar" or "string"; items are a
\* list's entries, or a string's characters
Json(root, items) == [kind |-> "json", root |-> root, items |-> items]

\* the outcomes of the persistence step: it succeeds, or fails at os.makedirs,
\* at open(), or inside json.dump
IOOutcomes == {"ok", "makedirs", "open", "write"}

----------------------------------------------------------------------------
(* fetch_news.py *)

\* What GNews may answer.  An article of the answer: a JSON object with any of
\* its fields absent or null, or a value that is no object at all.
UpstreamArticle(j) ==
    [isdict |-> TRUE, title |-> Str(100 + j), description |-> Str(200 + j),
     url |-> Str(300 + j), source |-> [k |-> "dict", name |-> Str(400 + j)],
     publishedAt |-> Str(500 + j)]

Quirks == {"no_title", "null_title", "no_source", "no_name", "null_source",
           "not_dict", "no_time"}

Quirked(a, q) ==
    CASE q = "no_title" -> [a EXCEPT !.title = Missing]
      [] q = "null_title" -> [a EXCEPT !.title = Null]
      [] q = "no_source" -> [a EXCEPT !.source = [k |-> "missing", name |-> Missing]]
      [] q = "no_name" -> [a EXCEPT !.source = [k |-> "dict", name |-> Missing]]
      [] q = "null_source" -> [a EXCEPT !.source = [k |-> "null", name |-> Missing]]
      [] q = "not_dict" -> [a EXCEPT !.isdict = FALSE]
      [] q = "no_time" -> [a EXCEPT !.publishedAt = Missing]
      [] OTHER -> a

NoArticles == [k |-> "missing", items |-> <<>>]

\* urlopen raised (transport error, timeout, HTTP error status) or the body is
\* not JSON
GnewsFailures ==
    {[kind |-> f, root |-> "none", articles |-> NoArticles] :
        f \in {"transport", "http", "badjson"}}

\* a JSON body that is no object, an object without 'articles', and an object
\* whose 'articles' is null
GnewsOddBodies ==
    {[kind |-> "json", root |-> "other", articles |-> NoArticles],
     [kind |-> "json", root |-> "object", articles |-> NoArticles],
     [kind |-> "json", root |-> "object", articles |-> [k |-> "null", items |-> <<>>]]}

\* an object with n articles, the one in place p (if any) quirked
GnewsList(n, p, q) ==
    [kind |-> "json", root |-> "object",
     articles |-> [k |-> "list",
                   items |-> [j \in 1..n |->
                                IF j = p THEN Quirked(UpstreamArticle(j), q)
                                ELSE UpstreamArticle(j)]]]

GnewsResponses ==
    GnewsFailures \cup GnewsOddBodies
    \cup {GnewsList(n, 0, "none") : n \in 0..MaxUpstream}
    \cup {GnewsList(MaxUpstream, p, q) : p \in {1, MaxUpstream}, q \in Quirks}

GNewsName == Str(-1)
SmartFinance == Str(-2)

\* lines 28-34: one article of the answer as fetch_from_gnews returns it
Convert(a) ==
    [title |-> Get(a.title, EmptyStr),
     description |-> Get(a.description, EmptyStr),
     url |-> Get(a.url, EmptyStr),
     source |-> IF a.source.k = "dict" THEN Get(a.source.name, GNewsName) ELSE GNewsName,
     publishedAt |-> Get(a.publishedAt, Time(0))]

\* a.get(...) needs a dict, and so does a.get('source', {}).get(...)
Convertible(a) == a.isdict /\ a.source.k # "null"

\* fetch_from_gnews: None on any exception, else the first 10 articles converted
fetch_from_gnews(key, resp) ==
    IF resp.kind # "json" THEN PyNone
    ELSE IF resp.root # "object" THEN PyNone
    ELSE IF resp.articles.k = "null" THEN PyNone
    ELSE LET articles == IF resp.articles.k = "missing" THEN <<>> ELSE resp.articles.items
             first == Take(articles, NewsCap)
         IN  IF \E j \in 1..Len(first) : ~Convertible(first[j]) THEN PyNone
             ELSE PyList([j \in 1..Len(first) |-> Convert(first[j])])

RssEntry(j, h) ==
    [title |-> Str(-10 - j), description |-> Str(-20 - j), url |-> Str(-30 - j),
     source |-> SmartFinance, publishedAt |-> Time(h)]

\* fetch_from_rss: the static list
fetch_from_rss ==
    PyList(<<RssEntry(1, 0), RssEntry(2, -2), RssEntry(3, -5), RssEntry(4, -8),
             RssEntry(5, -12)>>)

\* an entry of calls: the source attempted, what the network answered (Local
\* for a source that sends no request) and what the attempt returned
Local == [kind |-> "local"]
Call(src, answer, result) == [src |-> src, answer |-> answer, result |-> result]

\* json.dump(news, f, ...): the document the file holds once the write is complete
DumpNews(v) ==
    Json("list", [j \in 1..Len(v.items) |->
                     [isdict |-> TRUE, title |-> v.items[j].title,
                      description |-> v.items[j].description, url |-> v.items[j].url,
                      source |-> v.items[j].source,
                      publishedAt |-> v.items[j].publishedAt]])

\* a faulty variant: the file is opened for appending, the new entries follow the old
write_json_append(old, doc, io) ==
    CASE io = "ok" -> IF old.kind = "json" THEN Json(doc.root, old.items \o doc.items)
                      ELSE doc
      [] io \in {"makedirs", "open"} -> old
      [] OTHER -> Partial

\* a faulty variant: open() truncates the file even when it fails
write_json_eager(old, doc, io) ==
    CASE io = "ok" -> doc
      [] io = "makedirs" -> old
      [] OTHER -> Partial

\* os.makedirs('data', exist_ok=True); with open(path, 'w') as f: json.dump(...)
\* A failure before open() succeeds leaves the file as it was; open(path, 'w')
\* truncates, so a failure inside json.dump leaves a prefix of the new document.
write_json(old, doc, io) ==
    CASE io = "ok" -> doc
      [] io \in {"makedirs", "open"} -> old
      [] OTHER -> Partial

----------------------------------------------------------------------------
(* generate_insights.py *)

\* data/inflation.json as generate_insights may find it
InflNone(kind) == [kind |-> kind, root |-> "none", current |-> Missing, change |-> Missing]
InflDoc(root, current, change) ==
    [kind |-> "json", root |-> root, current |-> current, change |-> change]

\* rates a well-formed file may carry, in thousandths of a percent: the default,
\* one that rounds down, one half way between two figures, one that rounds up,
\* and a deflation
Rates == {DefaultCurrent, 2494, 2505, 2506, -500}

InflationFiles ==
    {InflNone("absent"), InflNone("garbage"),
     InflDoc("other", Missing, Missing),
     InflDoc("object", Missing, Missing),
     InflDoc("object", Str(1), Num(0))}
    \cup {InflDoc("object", Num(m), Num(0)) : m \in Rates}

DefaultInflation ==
    [root |-> "object", current |-> Num(DefaultCurrent), change |-> Num(DefaultChange)]

\* lines 78-80: json.load of the file; the default when open or json.load raises
LoadInflation(file) ==
    IF file.kind # "json" THEN DefaultInflation
    ELSE [root |-> file.root, current |-> file.current, change |-> file.change]

\* inflation['current'] evaluates: inflation is a dict that carries the key
HasCurrent(infl) == infl.root = "object" /\ infl.current.k # "missing"

Placeholder == [k |-> "placeholder", titles |-> <<>>]
NoHeadlines == [k |-> "unset", titles |-> <<>>]
\* ' | '.join(titles)
Joined(titles) == [k |-> "titles", titles |-> titles]

\* a faulty variant: every entry of the list is looked at, not only the first three
HeadlinesStrict(file) ==
    IF file.kind # "json" \/ file.root \notin {"list", "string"} THEN Placeholder
    ELSE IF \A j \in 1..Len(file.items) :
                file.items[j].isdict /\ file.items[j].title.k = "str"
    THEN Joined([j \in 1..Len(Take(file.items, HeadlineCap)) |-> file.items[j].title])
    ELSE Placeholder

\* lines 82-86: the titles of news[:3] joined, the placeholder on any exception.
\* news[:3] needs a list or a string; n['title'] needs a dict that carries the
\* key; join needs every title to be a string.
Headlines(file) ==
    IF file.kind # "json" THEN Placeholder
    ELSE IF file.root \notin {"list", "string"} THEN Placeholder
    ELSE LET top == Take(file.items, HeadlineCap)
         IN  IF \A j \in 1..Len(top) : top[j].isdict /\ top[j].title.k = "str"
             THEN Joined([j \in 1..Len(top) |-> top[j].title])
             ELSE Placeholder

\* the values of insights_text
TextNone == [k |-> "none", id |-> 0, loss |-> 0, current |-> 0]
\* what a model answered; ModelText(0) is the empty string
ModelText(i) == [k |-> "model", id |-> i, loss |-> 0, current |-> 0]
\* the template of lines 124-129 with {loss:.0f} and {inflation['current']} filled in
FallbackText(fig, m) == [k |-> "fallback", id |-> 0, loss |-> fig, current |-> m]

\* `if insights_text`: None and '' are falsy
TextTruthy(t) == t.k = "fallback" \/ (t.k = "model" /\ t.id # 0)

\* line 116
models == <<"google/gemini-2.0-flash-exp:free", "meta-llama/llama-3.2-3b-instruct:free">>

\* What OpenRouter may answer: urlopen raises (transport error, HTTP error
\* status), the body is not JSON, the body has no choices[0].message.content
\* (or one that is no string: len(content) raises), or content is the empty
\* string or a text.
ModelResponses ==
    {[kind |-> f, content |-> Missing] : f \in {"transport", "http", "badjson"}}
    \cup {[kind |-> "json", content |-> c] :
            c \in {Missing, Str(0), Str(1)}}

\* call_openrouter, lines 22-71: None without a key, on any exception of the
\* request and when the body has no content string; else the content.  The
\* caller always names the model, so `model or FREE_MODELS[0]` keeps it.
call_openrouter(prompt, key, model, resp) ==
    IF key = "" THEN TextNone
    ELSE IF resp.kind # "json" THEN TextNone
    ELSE IF resp.content.k # "str" THEN TextNone
    ELSE ModelText(resp.content.v)

\* a faulty variant: the principal is off by a factor of ten
LossTenthsSmall(m) == ((Principal \div 10) * m) \div 10000

\* line 123: loss = 10000 * (current / 100), in tenths, for a rate of m
\* thousandths of a percent
LossTenths(m) == (Principal * m) \div 10000

\* f"{loss:.0f}": the nearest integer.  The float product may land on either
\* side of a value half way between two integers, so both are admitted there.
Format0(t) ==
    LET lo == t \div 10
        r == t - 10 * lo
    IN  IF r < 5 THEN {lo} ELSE IF r > 5 THEN {lo + 1} ELSE {lo, lo + 1}

NoInsights == [summary |-> TextNone, timestamp |-> Time(0), model |-> "", language |-> ""]
\* lines 132-137
InsightRecord(text) ==
    [summary |-> text, timestamp |-> Time(0), model |-> "Smart-AI", language |-> "ar"]

\* json.dump(insights, f, ...): the document data/insights.json holds once the
\* write is complete, an object
DumpInsights(rec) == Json("object", <<rec>>)

----------------------------------------------------------------------------
(* The state before the first invocation *)

\* an entry of a news.json some earlier writer left: an article, an object
\* without 'title', or a value that is no object
FileEntry(j) ==
    [isdict |-> TRUE, title |-> Str(100 + j), description |-> Str(200 + j),
     url |-> Str(300 + j), source |-> GNewsName, publishedAt |-> Time(0)]
BadEntry(j, b) ==
    IF b = "no_title" THEN [FileEntry(j) EXCEPT !.title = Missing]
    ELSE [FileEntry(j) EXCEPT !.isdict = FALSE, !.title = Missing]

\* a list of n entries, the one in place p (if any) malformed
FileList(n, p, b) ==
    Json("list", [j \in 1..n |-> IF j = p THEN BadEntry(j, b) ELSE FileEntry(j)])

\* a character of a JSON string: a value that is no object
Char == [FileEntry(0) EXCEPT !.isdict = FALSE, !.title = Missing]

NewsFiles ==
    {Absent, Garbage, Json("object", <<>>), Json("scalar", <<>>),
     Json("string", <<>>), Json("string", <<Char>>)}
    \cup {FileList(n, 0, "none") : n \in 0..MaxFileNews}
    \cup {FileList(MaxFileNews, p, b) : p \in 1..MaxFileNews, b \in {"no_title", "not_dict"}}

Init ==
    /\ newsFile \in NewsFiles
    /\ inflationFile \in InflationFiles
    /\ insightsFile = Absent
    /\ pc = "idle"
    /\ script = "none"
    /\ status = "idle"
    /\ at = ""
    /\ api_key = ""
    /\ calls = <<>>
    /\ news = PyNone
    /\ inflation = DefaultInflation
    /\ news_headlines = NoHeadlines
    /\ model_i = 1
    /\ insights_text = TextNone
    /\ insights = NoInsights

files == <<newsFile, inflationFile, insightsFile>>
insightLocals == <<inflation, news_headlines, model_i, insights_text, insights>>

----------------------------------------------------------------------------
(* fetch_news() *)

\* lines 85-90: the key is read; GNews is tried only with a key
NewsStart ==
    \E env \in EnvValues :
        /\ pc = "idle"
        /\ script' = "fetch_news"
        /\ status' = "running"
        /\ at' = ""
        /\ api_key' = getenv(env)
        /\ calls' = <<>>
        /\ news' = PyNone
        /\ pc' = IF getenv(env) # "" THEN "n_gnews" ELSE "n_rss"
        /\ inflation' = DefaultInflation
        /\ news_headlines' = NoHeadlines
        /\ model_i' = 1
        /\ insights_text' = TextNone
        /\ insights' = NoInsights
        /\ UNCHANGED files

\* a faulty variant: a request that brought nothing is sent again
AfterGnewsRetry(got) == IF Truthy(got) THEN "n_rss" ELSE "n_gnews"

\* line 91 is followed by line 94 whatever the request brought
AfterGnews(got) == "n_rss"

\* line 91: news = fetch_from_gnews(api_key)
NewsGnews ==
    \E resp \in GnewsResponses :
        LET got == fetch_from_gnews(api_key, resp)
        IN  /\ pc = "n_gnews"
            /\ news' = got
            /\ calls' = Append(calls, Call("gnews", resp, got))
            /\ pc' = AfterGnews(got)
            /\ UNCHANGED <<files, script, status, at, api_key, insightLocals>>

\* a faulty variant: an empty list counts as a result
RssNeededIfNone(v) == v.t = "none"

\* line 94: if not news
RssNeeded(v) == ~Truthy(v)

\* lines 94-95: news = fetch_from_rss() when there is no news yet
NewsRss ==
    /\ pc = "n_rss"
    /\ IF RssNeeded(news)
       THEN /\ news' = fetch_from_rss
            /\ calls' = Append(calls, Call("rss", Local, fetch_from_rss))
       ELSE UNCHANGED <<news, calls>>
    /\ pc' = "n_save"
    /\ UNCHANGED <<files, script, status, at, api_key, insightLocals>>

\* lines 97-108: the news is written and returned; [] is returned when there is none
NewsSave ==
    \E io \in IOOutcomes :
        /\ pc = "n_save"
        /\ pc' = "idle"
        /\ IF Truthy(news)
           THEN /\ newsFile' = write_json(newsFile, DumpNews(news), io)
                /\ status' = IF io = "ok" THEN "returned" ELSE "raised"
                /\ at' = IF io = "ok" THEN "" ELSE io
                /\ news' = IF io = "ok" THEN news ELSE PyNone
           ELSE /\ newsFile' = newsFile
                /\ status' = "returned"
                /\ at' = ""
                /\ news' = PyList(<<>>)
        /\ UNCHANGED <<inflationFile, insightsFile, script, api_key, calls, insightLocals>>

----------------------------------------------------------------------------
(* generate_insights() *)

\* lines 75-112: the key, the inflation reading and the headlines are read and
\* the prompt is built; inflation['current'] in the prompt raises when the
\* reading has no such key
InsStart ==
    \E env \in EnvValues :
        LET infl == LoadInflation(inflationFile)
        IN  /\ pc = "idle"
            /\ script' = "generate_insights"
            /\ api_key' = getenv(env)
            /\ calls' = <<>>
            /\ news' = PyNone
            /\ inflation' = infl
            /\ news_headlines' = Headlines(newsFile)
            /\ model_i' = 1
            /\ insights_text' = TextNone
            /\ insights' = NoInsights
            /\ IF ~HasCurrent(infl)
               THEN pc' = "idle" /\ status' = "raised" /\ at' = "prompt"
               ELSE /\ pc' = IF getenv(env) # "" THEN "i_model" ELSE "i_fallback"
                    /\ status' = "running"
                    /\ at' = ""
            /\ UNCHANGED files

\* the prompt of lines 89-109: the rate and the headlines in a fixed text
Prompt == [current |-> inflation.current, headlines |-> news_headlines]

\* a faulty variant: the loop has no break
AfterModelNoBreak(got, i) ==
    IF i < Len(models) THEN [pc |-> "i_model", i |-> i + 1]
    ELSE [pc |-> "i_fallback", i |-> i]

\* lines 117-119: break on a non-empty text, else the next model, if any
AfterModel(got, i) ==
    IF TextTruthy(got) THEN [pc |-> "i_fallback", i |-> i]
    ELSE IF i < Len(models) THEN [pc |-> "i_model", i |-> i + 1]
    ELSE [pc |-> "i_fallback", i |-> i]

\* line 118: insights_text = call_openrouter(prompt, api_key, model)
InsCallModel ==
    \E resp \in ModelResponses :
        LET got == call_openrouter(Prompt, api_key, models[model_i], resp)
            then == AfterModel(got, model_i)
        IN  /\ pc = "i_model"
            /\ insights_text' = got
            /\ calls' = Append(calls, Call(models[model_i], resp, got))
            /\ pc' = then.pc
            /\ model_i' = then.i
            /\ UNCHANGED <<files, script, status, at, api_key, news, inflation,
                           news_headlines, insights>>

\* lines 122-129: the fallback text when no model gave one; current / 100
\* raises when current is no number
InsFallback ==
    /\ pc = "i_fallback"
    /\ IF TextTruthy(insights_text)
       THEN /\ pc' = "i_save"
            /\ UNCHANGED <<insights_text, calls, status, at>>
       ELSE IF inflation.current.k # "num"
       THEN /\ pc' = "idle"
            /\ status' = "raised"
            /\ at' = "fallback"
            /\ UNCHANGED <<insights_text, calls>>
       ELSE \E fig \in Format0(LossTenths(inflation.current.v)) :
                LET text == FallbackText(fig, inflation.current.v)
                IN  /\ insights_text' = text
                    /\ calls' = Append(calls, Call("fallback", Local, text))
                    /\ pc' = "i_save"
                    /\ UNCHANGED <<status, at>>
    /\ UNCHANGED <<files, script, api_key, news, inflation, news_headlines, model_i,
                   insights>>

\* lines 131-145: the record is built, written and returned
InsSave ==
    \E io \in IOOutcomes :
        LET rec == InsightRecord(insights_text)
        IN  /\ pc = "i_save"
            /\ pc' = "idle"
            /\ insightsFile' = write_json(insightsFile, DumpInsights(rec), io)
            /\ status' = IF io = "ok" THEN "returned" ELSE "raised"
            /\ at' = IF io = "ok" THEN "" ELSE io
            /\ insights' = IF io = "ok" THEN rec ELSE NoInsights
            /\ UNCHANGED <<newsFile, inflationFile, script, api_key, calls, news,
                           inflation, news_headlines, model_i, insights_text>>

----------------------------------------------------------------------------

Next ==
    \/ NewsStart
    \/ NewsGnews
    \/ NewsRss
    \/ NewsSave
    \/ InsStart
    \/ InsCallModel
    \/ InsFallback
    \/ InsSave

Spec == Init /\ [][Next]_vars

----------------------------------------------------------------------------
(* Properties *)

IOStages == {"makedirs", "open", "write"}

\* the invocation of script s has returned
Returned(s) == pc = "idle" /\ script = s /\ status = "returned"
\* the invocation of script s is over, by a return or by an exception
Ended(s) == pc = "idle" /\ script = s /\ status \in {"returned", "raised"}

Min(a, b) == IF a < b THEN a ELSE b

\* whether an attempt brought a usable result
Succeeded(c) ==
    IF c.src \in {"gnews", "rss"} THEN Truthy(c.result) ELSE TextTruthy(c.result)

\* GNews failed in one of the ways C1 lists: a transport error, an HTTP error
\* status, a body that is not JSON, or a body with zero articles
GnewsFailed(answer) ==
    \/ answer.kind \in {"transport", "http", "badjson"}
    \/ /\ answer.kind = "json"
       /\ answer.root = "object"
       /\ answer.articles.k \in {"missing", "list"}
       /\ Len(answer.articles.items) = 0

\* the static list: five entries, each one of Smart Finance's
IsStaticList(v) ==
    /\ v.t = "list"
    /\ Len(v.items) = 5
    /\ \A j \in 1..Len(v.items) :
         v.items[j].source = SmartFinance /\ v.items[j].title = Str(-10 - j)

\* C1: whenever fetch_news returns after GNews was skipped, or failed by a
\* transport error, an HTTP error status, a body that is not JSON or a body
\* with zero articles, it returns the static list of exactly 5 entries; and
\* whatever it returns is a non-empty list.
C1_FallbackList ==
    Returned("fetch_news") =>
        /\ Truthy(news)
        /\ (calls[1].src = "rss" \/ GnewsFailed(calls[1].answer)) => IsStaticList(news)

\* C1 witness: GNews answered HTTP 500 and the static list was returned
C1_Witness ==
    /\ Returned("fetch_news")
    /\ calls[1].src = "gnews"
    /\ calls[1].answer.kind = "http"
    /\ IsStaticList(news)

\* C2: once a source has brought a non-empty result no later source is
\* attempted, and that result is what is returned and written: for news the
\* first 10 articles of the answer, each converted, and no fetch_from_rss; for
\* insights the model's text as the summary, no further model and no fallback
\* text.
C2_FirstSuccessWins ==
    /\ \A j \in DOMAIN calls :
         (calls[j].src \notin {"rss", "fallback"} /\ Succeeded(calls[j])) =>
            /\ j = Len(calls)
            /\ Returned("fetch_news") =>
                 /\ news = calls[j].result
                 /\ newsFile = DumpNews(news)
                 /\ Len(news.items) = Min(NewsCap, Len(calls[j].answer.articles.items))
                 /\ \A i \in 1..Len(news.items) :
                      news.items[i] = Convert(calls[j].answer.articles.items[i])
            /\ Returned("generate_insights") =>
                 /\ insights.summary = calls[j].result
                 /\ insights.summary = ModelText(calls[j].answer.content.v)
                 /\ insightsFile = DumpInsights(insights)

\* C2 witness: GNews answered more than 10 articles, 10 were returned and written
C2_Witness ==
    /\ Returned("fetch_news")
    /\ Len(calls) = 1
    /\ calls[1].src = "gnews"
    /\ Len(calls[1].answer.articles.items) > NewsCap
    /\ Len(newsFile.items) = NewsCap

\* the fallback content of the script that ran last is what its artifact holds
FallbackWritten ==
    IF script = "fetch_news"
    THEN IsStaticList(news) /\ newsFile = DumpNews(news)
    ELSE /\ insights.summary.k = "fallback"
         /\ insightsFile = DumpInsights(insights)

\* C3: an invocation without a key (unset or empty) sends no request and,
\* unless the file system fails it, ends with the fallback content written to
\* its artifact.
C3_NoKey ==
    (pc = "idle" /\ script # "none" /\ api_key = "" /\ at \notin IOStages) =>
        /\ \A j \in DOMAIN calls : calls[j].src \in {"rss", "fallback"}
        /\ status = "returned"
        /\ FallbackWritten

\* data/inflation.json is absent, not JSON, or JSON that is not
\* {current: number, change: number}
InflationMalformed ==
    \/ inflationFile.kind # "json"
    \/ inflationFile.root # "object"
    \/ inflationFile.current.k # "num"
    \/ inflationFile.change.k # "num"

\* C4: with data/inflation.json absent or malformed, generate_insights uses
\* the default reading current=2.5, change=0.0 and raises neither when it
\* builds the prompt nor when it builds the fallback text.
C4_DefaultReading ==
    (script = "generate_insights" /\ InflationMalformed) =>
        /\ inflation = DefaultInflation
        /\ at \notin {"prompt", "fallback"}

\* C5 as claimed: a failure anywhere in the persistence step ends the
\* invocation with the error, leaves both artifacts as they were, and no
\* artifact is partially written.
C5_PriorLeftInPlace ==
    [][(pc \in {"n_save", "i_save"} /\ status' = "raised") =>
          /\ pc' = "idle"
          /\ newsFile' = newsFile
          /\ insightsFile' = insightsFile
          /\ newsFile'.kind # "partial"
          /\ insightsFile'.kind # "partial"]_vars

\* C5 amended: a failure in the persistence step ends the invocation with the
\* error; at os.makedirs or at open() both artifacts stay as they were; inside
\* json.dump the artifact being written has lost its prior content and holds
\* part of the new one, the other artifact stays as it was.
C5_Amended ==
    [][(pc \in {"n_save", "i_save"} /\ status' = "raised") =>
          /\ pc' = "idle"
          /\ at' \in IOStages
          /\ at' \in {"makedirs", "open"} =>
               newsFile' = newsFile /\ insightsFile' = insightsFile
          /\ (at' = "write" /\ pc = "n_save") =>
               newsFile' = Partial /\ insightsFile' = insightsFile
          /\ (at' = "write" /\ pc = "i_save") =>
               insightsFile' = Partial /\ newsFile' = newsFile]_vars

\* C5 witness: open() failed in fetch_news and data/news.json still holds a
\* list, while an earlier generate_insights left data/insights.json in place
C5_Witness ==
    /\ Ended("fetch_news")
    /\ status = "raised"
    /\ at = "open"
    /\ newsFile.kind = "json"
    /\ newsFile.root = "list"
    /\ insightsFile.kind = "json"

\* C6: whatever the models answered, once a model was asked generate_insights
\* returns (unless the file system fails it) with data/insights.json written
\* and a non-empty summary, the fallback text when no model gave a text.
C6_AlwaysAnArtifact ==
    (Ended("generate_insights") /\ Len(calls) > 0 /\ calls[1].src = models[1]
        /\ at \notin IOStages) =>
        /\ status = "returned"
        /\ insightsFile = DumpInsights(insights)
        /\ TextTruthy(insights.summary)
        /\ (\A j \in DOMAIN calls : calls[j].src = "fallback" \/ ~Succeeded(calls[j]))
              => insights.summary.k = "fallback"

\* C7: the fallback text carries the reading in use and the figure
\* 10000 * current / 100 rounded to an integer (in thousandths of a riyal the
\* loss is 100 * m for a rate of m thousandths of a percent); with current =
\* 2.5 and no key the figure is 250.
C7_LossFigure ==
    insights_text.k = "fallback" =>
        /\ inflation.current.k = "num"
        /\ insights_text.current = inflation.current.v
        /\ 1000 * insights_text.loss - 100 * inflation.current.v \in -500..500
        /\ (inflation.current = Num(2500) /\ api_key = "") => insights_text.loss = 250

\* C7 witness: no key, the default reading, and the figure 250 returned
C7_Witness ==
    /\ Returned("generate_insights")
    /\ api_key = ""
    /\ inflation.current = Num(2500)
    /\ insights.summary.k = "fallback"
    /\ insights.summary.loss = 250

\* data/news.json is a list of records each carrying a string title
NewsWellFormed ==
    /\ newsFile.kind = "json"
    /\ newsFile.root = "list"
    /\ \A j \in 1..Len(newsFile.items) :
         newsFile.items[j].isdict /\ newsFile.items[j].title.k = "str"

\* data/news.json is absent, not JSON, no list, or a list with an entry that
\* is no record or carries no title
NewsMalformed ==
    \/ newsFile.kind # "json"
    \/ newsFile.root # "list"
    \/ \E j \in 1..Len(newsFile.items) :
         ~newsFile.items[j].isdict \/ newsFile.items[j].title.k = "missing"

\* the headlines are the titles of the first (at most 3) entries
TopTitles ==
    /\ news_headlines.k = "titles"
    /\ Len(news_headlines.titles) = Min(HeadlineCap, Len(newsFile.items))
    /\ \A j \in 1..Len(news_headlines.titles) :
         news_headlines.titles[j] = newsFile.items[j].title

\* C8 as claimed: the headlines are the titles of at most the first 3
\* entries of a well-formed data/news.json, and the placeholder whenever the
\* file is absent or malformed.
C8_Headlines ==
    script = "generate_insights" =>
        /\ NewsWellFormed => TopTitles
        /\ NewsMalformed => news_headlines = Placeholder

\* the first (at most 3) entries of data/news.json can be read: the file is
\* JSON, a list or a string, and each of them is a record with a string title
TopReadable ==
    /\ newsFile.kind = "json"
    /\ newsFile.root \in {"list", "string"}
    /\ \A j \in 1..Min(HeadlineCap, Len(newsFile.items)) :
         newsFile.items[j].isdict /\ newsFile.items[j].title.k = "str"

\* C8 amended: the headlines are the titles of at most the first 3 entries
\* when those can be read, whatever follows them; the placeholder is used in
\* every other case (the file absent, not JSON, neither a list nor the empty
\* string, or one of its first 3 entries no record with a string title); no
\* exception of the invocation comes from reading the news.
C8_Amended ==
    script = "generate_insights" =>
        /\ TopReadable => TopTitles
        /\ ~TopReadable => news_headlines = Placeholder
        /\ at \in {"", "prompt", "fallback"} \cup IOStages

\* C8 witness: the fourth entry carries no title, and the first three titles
\* are the headlines
C8_Witness ==
    /\ script = "generate_insights"
    /\ newsFile.kind = "json"
    /\ newsFile.root = "list"
    /\ Len(newsFile.items) > HeadlineCap
    /\ newsFile.items[HeadlineCap + 1].title.k = "missing"
    /\ news_headlines.k = "titles"
    /\ Len(news_headlines.titles) = HeadlineCap

\* C9: when fetch_news has returned, data/news.json holds exactly the list
\* returned, of 1 to 10 articles, and nothing of what the file held before.
C9_ArtifactIsLatest ==
    Returned("fetch_news") =>
        /\ newsFile.kind = "json"
        /\ newsFile.root = "list"
        /\ Len(newsFile.items) = Len(news.items)
        /\ Len(newsFile.items) \in 1..NewsCap
        /\ \A j \in 1..Len(newsFile.items) :
             /\ newsFile.items[j].isdict
             /\ newsFile.items[j].title = news.items[j].title
             /\ newsFile.items[j].description = news.items[j].description
             /\ newsFile.items[j].url = news.items[j].url
             /\ newsFile.items[j].source = news.items[j].source
             /\ newsFile.items[j].publishedAt = news.items[j].publishedAt

\* C9 witness: a GNews answer of 2 articles was returned and is what the file holds
C9_Witness ==
    /\ Returned("fetch_news")
    /\ calls[1].src = "gnews"
    /\ Len(news.items) = 2
    /\ Len(newsFile.items) = 2

\* the fixed priority of the sources of the script that runs
Rank(src) ==
    CASE src = "gnews" -> 1
      [] src = "rss" -> 2
      [] src = models[1] -> 1
      [] src = models[2] -> 2
      [] OTHER -> 3

\* C10: within an invocation the sources are attempted in their fixed order,
\* each at most once, a later one only after every earlier one attempted
\* brought nothing, and the fallback (the static list, the fallback text) only
\* after every source was attempted, or skipped for want of a key.
C10_Sequential ==
    /\ \A i, j \in DOMAIN calls :
         i < j => Rank(calls[i].src) < Rank(calls[j].src) /\ ~Succeeded(calls[i])
    /\ \A j \in DOMAIN calls :
         /\ calls[j].src = "rss" =>
              IF api_key = "" THEN j = 1 ELSE j = 2 /\ calls[1].src = "gnews"
         /\ calls[j].src = "fallback" =>
              IF api_key = "" THEN j = 1
              ELSE /\ j = Len(models) + 1
                   /\ \A i \in 1..Len(models) : calls[i].src = models[i]
         /\ calls[j].src \notin {"rss", "fallback"} => api_key # ""

\* C10 witness: both models were asked in order, both failed, then the fallback
C10_Witness ==
    /\ Returned("generate_insights")
    /\ Len(calls) = 3
    /\ calls[1].src = models[1]
    /\ calls[2].src = models[2]
    /\ calls[3].src = "fallback"

====
